---- MODULE Spec2Model ----
(***************************************************************************)
(* BioSim (src/SimuladorVida.py): the predator/prey simulation engine.     *)
(*                                                                         *)
(* Fixed point.  pygame's Vector2 and the energies are floating point; the *)
(* model keeps them as integers:                                           *)
(*   - lengths, positions, velocities, forces: tenths of a world unit      *)
(*     (WORLD_W = 2000 units = 20000 tenths, speed 3.5 = 35 tenths);       *)
(*   - energies: hundredths of an energy unit (150 = 15000 hundredths);    *)
(*   - angles: steps of 15 degrees (24 steps to the turn).                 *)
(* Comparisons of distances are made on squared lengths, which is exact.   *)
(***************************************************************************)
EXTENDS Integers, Sequences, FiniteSets, TLC

\* ---------------------------------------------------------------- bounds
\* Populations seeded by reset_sim (the program seeds 400 / 100 / 8) and the
\* food cap (the program's is 800), scaled down so that the cap is reached.
FOOD_START == 1
PREY_START == 2
PREDATOR_START == 1
FOOD_CAP == 2
\* Capacity of the two history deques (the program's is 200).
HISTORY_MAXLEN == 2
\* Frames of the main loop during which inputs and random draws are explored.
MaxFrames == 4
\* Mouse clicks explored.
MaxClicks == 1
\* Time compression: one step charges this many frames' worth of metabolism,
\* so that starvation happens within MaxFrames frames.
MetabolismBoost == 95

\* ------------------------------------------------------ program constants
WORLD_W == 2000 * 10
WORLD_H == 2000 * 10
FPS == 60
CELL_SIZE == 120 * 10
PREY_METABOLISM == 50
PRED_METABOLISM == 80
REPRO_COST_PREY == 100 * 100
REPRO_COST_PRED == 250 * 100
REPRO_MARGIN == 50 * 100
PREY_ENERGY == 150 * 100
PRED_ENERGY == 300 * 100
MAX_ENERGY == 400 * 100
FOOD_REWARD == 50 * 100
PREY_REWARD == 120 * 100
EAT_RADIUS == 10 * 10
CATCH_RADIUS == 12 * 10
PREY_DNA == [speed |-> 35, force |-> 5, sense |-> 100 * 10]
PRED_DNA == [speed |-> 42, force |-> 3, sense |-> 180 * 10]
\* Milliseconds per frame: clock.tick(FPS) paces the loop.
FRAME_MS == 1000 \div FPS

\* ------------------------------------------------------------ Vector2
Vec(x, y) == [x |-> x, y |-> y]
ZeroVec == Vec(0, 0)
VAdd(a, b) == Vec(a.x + b.x, a.y + b.y)
VSub(a, b) == Vec(a.x - b.x, a.y - b.y)
Abs(n) == IF n < 0 THEN -n ELSE n
\* Division truncating toward zero, as the rounding of the fixed point.
Quot(a, b) == IF a < 0 THEN -((-a) \div b) ELSE a \div b
RECURSIVE SqrtIter(_, _, _)
SqrtIter(n, lo, hi) ==
  IF lo >= hi THEN lo
  ELSE LET mid == (lo + hi + 1) \div 2
       IN IF mid * mid <= n THEN SqrtIter(n, mid, hi) ELSE SqrtIter(n, lo, mid - 1)
ISqrt(n) == SqrtIter(n, 0, IF n < 65536 THEN 255 ELSE 46340)
\* Vector2.length_squared, Vector2.length, Vector2.distance_to (squared)
Len2(v) == v.x * v.x + v.y * v.y
VLen(v) == ISqrt(Len2(v))
Dist2(a, b) == Len2(VSub(a, b))
\* Vector2.scale_to_length (callers never pass the zero vector)
ScaleTo(v, l) == LET n == VLen(v) IN Vec(Quot(v.x * l, n), Quot(v.y * l, n))
\* v * (m / 10): the multipliers of the code are given in tenths
VMul10(v, m) == Vec(Quot(v.x * m, 10), Quot(v.y * m, 10))
\* cos and sin of k * 15 degrees, in thousandths
NDIRS == 24
CosQ == <<1000, 966, 866, 707, 500, 259, 0>>
Cos1000(k) ==
  LET j == k % NDIRS
  IN IF j <= 6 THEN CosQ[j + 1]
     ELSE IF j <= 12 THEN -CosQ[12 - j + 1]
     ELSE IF j <= 18 THEN -CosQ[j - 12 + 1]
     ELSE CosQ[24 - j + 1]
Sin1000(k) == Cos1000(k + 18)
\* Vector2(l, 0).rotate_rad(theta)
Polar(l, k) == Vec(Quot(l * Cos1000(k), 1000), Quot(l * Sin1000(k), 1000))

\* ------------------------------------------------------------ entities
\* Entity.__init__ / Food: an object is its id (the Python reference)
NewFood(id, pos) == [id |-> id, pos |-> pos, active |-> TRUE]
\* Agent.__init__ with the energy the subclass leaves (150 prey, 300 predator)
NewAgent(id, pos, dna, energy, vel, theta) ==
  [id |-> id, pos |-> pos, active |-> TRUE, vel |-> vel, acc |-> ZeroVec,
   dna |-> dna, energy |-> energy, wander_theta |-> theta % NDIRS]
NewPrey(id, pos, dna, vel, theta) == NewAgent(id, pos, dna, PREY_ENERGY, vel, theta)
NewPredator(id, pos, dna, vel, theta) == NewAgent(id, pos, dna, PRED_ENERGY, vel, theta)
\* The object a reference denotes, in the list that holds it
ObjById(objs, id) == objs[CHOOSE i \in 1..Len(objs) : objs[i].id = id]
IndexOfId(objs, id) == CHOOSE i \in 1..Len(objs) : objs[i].id = id
Ids(objs) == {objs[i].id : i \in 1..Len(objs)}

\* ------------------------------------------------------------ SpatialGrid
EmptyGrid == [c \in {} |-> <<>>]
CellOf(pos) == <<pos.x \div CELL_SIZE, pos.y \div CELL_SIZE>>
\* SpatialGrid.add
GridAdd(g, obj) ==
  LET idx == CellOf(obj.pos)
  IN IF idx \in DOMAIN g THEN [g EXCEPT ![idx] = Append(@, obj.id)]
     ELSE g @@ (idx :> <<obj.id>>)
RECURSIVE GridAddAll(_, _, _)
GridAddAll(g, objs, i) ==
  IF i > Len(objs) THEN g ELSE GridAddAll(GridAdd(g, objs[i]), objs, i + 1)
\* SpatialGrid.get_nearby: the cells of the square, x outer, y inner
RECURSIVE Gather(_, _, _, _)
Gather(g, c, r, k) ==
  LET side == 2 * r + 1
      cell == <<c[1] - r + (k \div side), c[2] - r + (k % side)>>
  IN IF k >= side * side THEN <<>>
     ELSE (IF cell \in DOMAIN g THEN g[cell] ELSE <<>>) \o Gather(g, c, r, k + 1)
get_nearby(g, pos, r) == Gather(g, CellOf(pos), r, 0)
GridIds(g) == UNION {{g[c][i] : i \in 1..Len(g[c])} : c \in DOMAIN g}
SeqSet(s) == {s[i] : i \in 1..Len(s)}

\* ------------------------------------------------------------ Agent
\* Agent.edges
edges_NoWrap(pos) == pos
edges(pos) ==
  LET x1 == IF pos.x > WORLD_W THEN 0 ELSE pos.x
      x2 == IF x1 < 0 THEN WORLD_W ELSE x1
      y1 == IF pos.y > WORLD_H THEN 0 ELSE pos.y
      y2 == IF y1 < 0 THEN WORLD_H ELSE y1
  IN Vec(x2, y2)
\* The clamp of the velocity to the genome's speed
ClampSpeed(v, speed) == IF Len2(v) > speed * speed THEN ScaleTo(v, speed) ELSE v
\* Agent.update_physics
update_physics(a) ==
  LET v == ClampSpeed(VAdd(a.vel, a.acc), a.dna.speed)
  IN [a EXCEPT !.vel = v, !.pos = edges(VAdd(a.pos, v)), !.acc = ZeroVec]
\* Agent.steer, mult in tenths
steer(a, target, mult) ==
  LET desired == VSub(target, a.pos)
  IN IF Len2(desired) = 0 THEN ZeroVec
     ELSE LET st == VSub(ScaleTo(desired, a.dna.speed), a.vel)
              cl == IF Len2(st) > a.dna.force * a.dna.force
                    THEN ScaleTo(st, a.dna.force) ELSE st
          IN VMul10(cl, mult)
\* The energy an update charges: metabolism plus 0.01 * |vel|^2
Metabolism_Free(base, vel) == 0
Metabolism(base, vel) == MetabolismBoost * (base + (Len2(vel) \div 100))

\* The nearest of the objects `ids` refer to, as the loops of Prey.update and
\* Predator.update find it: strictly nearer than the best so far, which starts
\* at the genome's sense.  [id, d2]: id = 0 is None.
\* `if not f.active: continue` (the loop over predators in Prey.update has none)
Skips_Never(o, activeOnly) == FALSE
Skips(o, activeOnly) == activeOnly /\ ~o.active
RECURSIVE Nearest(_, _, _, _, _, _)
Nearest(ids, k, objs, pos, best, activeOnly) ==
  IF k > Len(ids) THEN best
  ELSE LET o == ObjById(objs, ids[k])
           d2 == Dist2(pos, o.pos)
       IN IF Skips(o, activeOnly) THEN Nearest(ids, k + 1, objs, pos, best, activeOnly)
          ELSE IF d2 < best.d2
               THEN Nearest(ids, k + 1, objs, pos, [id |-> o.id, d2 |-> d2], activeOnly)
               ELSE Nearest(ids, k + 1, objs, pos, best, activeOnly)
NoneWithin(sense) == [id |-> 0, d2 |-> sense * sense]

\* ------------------------------------------------------------ the world
\* During a step the lists, the grids and the object counter are threaded
\* through the passes as one record w; w.log records what the step did
\* (which objects were updated, queried, fed on and born, in order).
EmptyLog ==
  [updated |-> <<>>, born |-> <<>>, seen |-> {}, fed |-> <<>>,
   prey_steps |-> <<>>, hunts |-> <<>>, grew |-> 0, pruned_food |-> 0]
SetActive(objs, id, v) == [objs EXCEPT ![IndexOfId(objs, id)].active = v]

\* Prey.update, the flee loop: the nearest predator of the neighbouring cells
PreyThreat(w, self) ==
  Nearest(get_nearby(w.grid_preds, self.pos, 1), 1, w.preds, self.pos,
          NoneWithin(self.dna.sense), FALSE)
\* `elif self.energy < self.max_energy:`
Forages(e1, cp) == cp.id = 0 /\ e1 < MAX_ENERGY
\* Prey.update, the forage loop: the nearest active food of the neighbouring cells
PreyFood(w, self, e1, cp) ==
  IF Forages(e1, cp)
  THEN Nearest(get_nearby(w.grid_food, self.pos, 1), 1, w.food, self.pos,
               NoneWithin(self.dna.sense), TRUE)
  ELSE NoneWithin(self.dna.sense)
\* `if closest_food and min_f_dist < 10:`
Eats(cf) == cf.id # 0 /\ cf.d2 < EAT_RADIUS * EAT_RADIUS
\* The force of the flight (steer * -5.0) or of the approach (steer * 1.5)
PreyForce(w, self, cp, cf) ==
  IF cp.id # 0 THEN steer(self, ObjById(w.preds, cp.id).pos, -50)
  ELSE IF cf.id # 0 THEN steer(self, ObjById(w.food, cf.id).pos, 15)
  ELSE ZeroVec
\* `if force.length() < 0.1:`
Wanders(force) == Len2(force) < 1
\* The wander: a point on a circle ahead of the agent (steer * 0.5)
PreyWander(self, theta) ==
  LET circle == IF Len2(self.vel) > 0 THEN ScaleTo(self.vel, 300) ELSE Vec(10, 0)
  IN steer(self, VAdd(self.pos, VAdd(circle, Polar(100, theta))), 5)
\* apply_force and update_physics of Prey.update
PreyMove(self, e2, force, step) ==
  LET theta == IF Wanders(force) THEN (self.wander_theta + step) % NDIRS
               ELSE self.wander_theta
  IN update_physics(
       [self EXCEPT !.energy = e2, !.wander_theta = theta,
                    !.acc = VAdd(self.acc, IF Wanders(force)
                                           THEN VAdd(force, PreyWander(self, theta))
                                           ELSE force)])
\* The two neighbor queries of Prey.update
PreySeen(w, self) ==
  SeqSet(get_nearby(w.grid_preds, self.pos, 1)) \cup SeqSet(get_nearby(w.grid_food, self.pos, 1))
PreyApply(w, i, self, e1, cp, cf, step) ==
  [w EXCEPT !.prey[i] = PreyMove(self, IF Eats(cf) THEN e1 + FOOD_REWARD ELSE e1,
                                 PreyForce(w, self, cp, cf), step),
            !.food = IF Eats(cf) THEN SetActive(@, cf.id, FALSE) ELSE @,
            !.log.updated = Append(@, self.id),
            !.log.seen = @ \cup PreySeen(w, self),
            !.log.fed = IF Eats(cf) THEN Append(@, [eater |-> self.id, item |-> cf.id])
                        ELSE @]
PreySeek(w, i, self, e1, cp, step) ==
  PreyApply(w, i, self, e1, cp, PreyFood(w, self, e1, cp), step)
\* Prey.update; step is the draw added to wander_theta
PreyUpdate(w, i, step) ==
  PreySeek(w, i, w.prey[i],
           w.prey[i].energy - Metabolism(PREY_METABOLISM, w.prey[i].vel),
           PreyThreat(w, w.prey[i]), step)

\* The active prey registered in the prey grid that lie strictly within
\* `sense` of pos, by exhaustive search (what a complete query would see)
InRange(w, pos, sense) ==
  {id \in GridIds(w.grid_prey) :
     LET o == ObjById(w.prey, id) IN o.active /\ Dist2(pos, o.pos) < sense * sense}
NearestOf(w, pos, S) ==
  {id \in S : \A j \in S : Dist2(pos, ObjById(w.prey, id).pos) <= Dist2(pos, ObjById(w.prey, j).pos)}

\* Predator.update, the hunt loop: the nearest active prey of the cells
\* within two of the predator's
PredTarget(w, self) ==
  Nearest(get_nearby(w.grid_prey, self.pos, 2), 1, w.prey, self.pos,
          NoneWithin(self.dna.sense), TRUE)
\* `if min_dist < 12:`
Catches(closest) == closest.id # 0 /\ closest.d2 < CATCH_RADIUS * CATCH_RADIUS
\* The chase (steer * 1.2) or the patrol (0.5 along wander_theta)
PredForce(w, self, closest, theta) ==
  IF closest.id # 0 THEN steer(self, ObjById(w.prey, closest.id).pos, 12)
  ELSE VMul10(Polar(10, theta), 5)
\* apply_force and update_physics of Predator.update
PredMove(w, self, e2, closest, step) ==
  LET theta == IF closest.id = 0 THEN (self.wander_theta + step) % NDIRS
               ELSE self.wander_theta
  IN update_physics(
       [self EXCEPT !.energy = e2, !.wander_theta = theta,
                    !.acc = VAdd(self.acc, PredForce(w, self, closest, theta))])
\* What the hunt of one predator did, against what was in its range
Hunt(w, self, e1, e2, closest, inrange) ==
  [id |-> self.id, from |-> self.pos, sense |-> self.dna.sense,
   target |-> closest.id, d2 |-> closest.d2,
   inrange |-> inrange, nearest |-> NearestOf(w, self.pos, inrange),
   energy |-> self.energy, before |-> e1, after |-> e2]
PredApply(w, i, self, e1, e2, closest, step) ==
  [w EXCEPT !.preds[i] = PredMove(w, self, e2, closest, step),
            !.prey = IF Catches(closest) THEN SetActive(@, closest.id, FALSE) ELSE @,
            !.log.updated = Append(@, self.id),
            !.log.seen = @ \cup SeqSet(get_nearby(w.grid_prey, self.pos, 2)),
            !.log.fed = IF Catches(closest)
                        THEN Append(@, [eater |-> self.id, item |-> closest.id]) ELSE @,
            !.log.hunts = Append(@, Hunt(w, self, e1, e2, closest,
                                         InRange(w, self.pos, self.dna.sense)))]
PredStrike(w, i, self, e1, closest, step) ==
  PredApply(w, i, self, e1, IF Catches(closest) THEN e1 + PREY_REWARD ELSE e1,
            closest, step)
\* Predator.update; step is the draw added to wander_theta
PredatorUpdate(w, i, step) ==
  PredStrike(w, i, w.preds[i],
             w.preds[i].energy - Metabolism(PRED_METABOLISM, w.preds[i].vel),
             PredTarget(w, w.preds[i]), step)

\* ------------------------------------------------- random draws and inputs
\* random.randint(0, WORLD_W) x random.randint(0, WORLD_H) of reset_sim and of
\* the regrowth; both ends are included
FoodPos == {Vec(10000, 10000)}
PreyPos == {Vec(10050, 10000), Vec(WORLD_W, 10000)}
PredPos == {Vec(0, 10000), Vec(10050, 10050)}
\* camera.unapply(mouse position): points of the window at zoom 1, which every
\* zoom level of the camera shows
ClickPos == {Vec(10050, 10040), Vec(10050, 11500)}
\* Vector2(uniform(-1, 1), uniform(-1, 1)) and uniform(0, 100) of Agent.__init__
InitVels == {Vec(10, 0), Vec(-10, 0)}
InitThetas == {0}
\* uniform(-0.3, 0.3) of the prey's wander and uniform(-0.1, 0.1) of the
\* predator's patrol, in steps of 15 degrees
PreyWanderSteps == {0}
PredWanderSteps == {0}
\* uniform(0.9, 1.1) per gene, in hundredths
MutFactors ==
  {[speed |-> 110, force |-> 90, sense |-> 110], [speed |-> 90, force |-> 110, sense |-> 90]}
\* One step's draws: random.random() < FOOD_RATE and the spot of the new food,
\* the wander increments, the mutation factors and the birth velocity / angle
Draws ==
  [grow : BOOLEAN, gpos : FoodPos, wprey : PreyWanderSteps, wpred : PredWanderSteps,
   mut : MutFactors, vel0 : InitVels, theta0 : InitThetas]

\* ------------------------------------------------------------ state
VARIABLES
  running,             \* SimulationApp.running
  state,               \* "INTRO", "SIM", "GAMEOVER"
  overview_mode,       \* camera.overview_mode
  food, prey, preds,   \* the three lists
  grid_food, grid_prey, grid_preds,
  stats_history_prey, stats_history_pred,
  max_prey, max_pred,
  frame,               \* iterations of the main loop so far (get_ticks = frame * FRAME_MS)
  nextId,              \* the next fresh object reference
  clicks,              \* mouse clicks so far
  trace                \* what the last frame did (history variable)

vars ==
  <<running, state, overview_mode, food, prey, preds, grid_food, grid_prey, grid_preds,
    stats_history_prey, stats_history_pred, max_prey, max_pred, frame, nextId, clicks, trace>>
simvars ==
  <<food, prey, preds, grid_food, grid_prey, grid_preds,
    stats_history_prey, stats_history_pred, max_prey, max_pred>>

NoTrace == [kind |-> "none", event |-> "none", extinct |-> FALSE, log |-> EmptyLog]

\* SimulationApp.__init__: the lists do not exist before the first reset_sim
Init ==
  /\ running = TRUE
  /\ state = "INTRO"
  /\ overview_mode = FALSE
  /\ food = <<>> /\ prey = <<>> /\ preds = <<>>
  /\ grid_food = EmptyGrid /\ grid_prey = EmptyGrid /\ grid_preds = EmptyGrid
  /\ stats_history_prey = <<>> /\ stats_history_pred = <<>>
  /\ max_prey = 0 /\ max_pred = 0
  /\ frame = 0
  /\ nextId = 1
  /\ clicks = 0
  /\ trace = NoTrace

\* Inputs and random draws are explored during the first MaxFrames frames of
\* the main loop; after them the simulation runs on with an empty event queue
\* and the default draws, to its end.
Rich == frame < MaxFrames

\* ------------------------------------------------------------ reset_sim
reset_sim(fp, pp, dp, v0, t0) ==
  /\ food' = [i \in 1..FOOD_START |-> NewFood(i, fp[i])]
  /\ prey' = [i \in 1..PREY_START |-> NewPrey(FOOD_START + i, pp[i], PREY_DNA, v0, t0)]
  /\ preds' = [i \in 1..PREDATOR_START |->
                 NewPredator(FOOD_START + PREY_START + i, dp[i], PRED_DNA, v0, t0)]
  /\ nextId' = FOOD_START + PREY_START + PREDATOR_START + 1
  /\ grid_food' = EmptyGrid /\ grid_prey' = EmptyGrid /\ grid_preds' = EmptyGrid
  /\ stats_history_prey' = <<>> /\ stats_history_pred' = <<>>
  /\ max_prey' = 0 /\ max_pred' = 0

Reset(kind) ==
  \E fp \in [1..FOOD_START -> FoodPos], pp \in [1..PREY_START -> PreyPos],
     dp \in [1..PREDATOR_START -> PredPos], v0 \in InitVels, t0 \in InitThetas :
    /\ reset_sim(fp, pp, dp, v0, t0)
    /\ state' = "SIM"
    /\ frame' = frame + 1
    /\ trace' = [NoTrace EXCEPT !.kind = kind, !.event = "space"]
    /\ UNCHANGED <<running, overview_mode, clicks>>

\* screen_intro: K_SPACE
IntroSpace == running /\ state = "INTRO" /\ Rich /\ Reset("intro")
\* screen_intro / screen_gameover: QUIT, and K_ESCAPE on the game-over screen
Quit(kind, ev) ==
  /\ running' = FALSE
  /\ frame' = frame + 1
  /\ trace' = [NoTrace EXCEPT !.kind = kind, !.event = ev]
  /\ UNCHANGED <<state, overview_mode, clicks, nextId, simvars>>
IntroQuit == running /\ state = "INTRO" /\ Rich /\ Quit("intro", "quit")
GameoverQuit == running /\ state = "GAMEOVER" /\ Rich /\ Quit("gameover", "quit")
GameoverEscape == running /\ state = "GAMEOVER" /\ Rich /\ Quit("gameover", "esc")
\* screen_gameover: K_SPACE
GameoverSpace == running /\ state = "GAMEOVER" /\ Rich /\ Reset("gameover")

\* ------------------------------------------------------------ run_sim_logic
\* step 3: the three list comprehensions
PruneFood(fs) == SelectSeq(fs, LAMBDA f : f.active)
Alive_ActiveOnly(a) == a.active
Alive(a) == a.active /\ a.energy > 0
PruneAgents(as) == SelectSeq(as, Alive)
\* `if len(self.prey) == 0 and len(self.preds) == 0`
Extinct_Either(ps, ds) == Len(ps) = 0 \/ Len(ds) = 0
Extinct(ps, ds) == Len(ps) = 0 /\ Len(ds) = 0
\* `len(self.food) < 800`
BelowCap_Inclusive(n) == n <= FOOD_CAP
BelowCap(n) == n < FOOD_CAP
\* Food regrowth; the new food is appended after the grids were filled
Regrow(w, rnd) ==
  IF BelowCap(Len(w.food)) /\ rnd.grow
  THEN [w EXCEPT !.food = Append(@, NewFood(w.nextId, rnd.gpos)),
                 !.nextId = @ + 1, !.log.grew = 1]
  ELSE w
\* {k: v * random.uniform(0.9, 1.1) for k, v in p.dna.items()}
Mutate(dna, f) == [k \in DOMAIN dna |-> (dna[k] * f[k]) \div 100]
\* `p.energy > REPRO_COST_PREY + 50` and `p.energy > REPRO_COST_PRED + 50`
PreyReproduces_NoMargin(p) == p.energy > REPRO_COST_PREY
PreyReproduces(p) == p.energy > REPRO_COST_PREY + REPRO_MARGIN
PredReproduces(p) == p.energy > REPRO_COST_PRED + REPRO_MARGIN
\* `p.energy -= REPRO_COST_PREY` and `p.energy -= REPRO_COST_PRED`
PayPrey(e) == e - REPRO_COST_PREY
PayPred(e) == e - REPRO_COST_PRED
\* new_prey.append(...) and new_preds.append(...)
PreyBirth_Direct(w, child) == [w EXCEPT !.prey = Append(@, child)]
PreyBirth(w, child) == [w EXCEPT !.new_prey = Append(@, child)]
PredBirth(w, child) == [w EXCEPT !.new_preds = Append(@, child)]

\* The body of `for p in self.prey:` after p.update: w is the world before the
\* update and w1 the world after it
PreyTurn(w, i, w1, child, rnd) ==
  [(IF PreyReproduces(w1.prey[i])
    THEN PreyBirth([w1 EXCEPT !.prey[i].energy = PayPrey(@), !.nextId = @ + 1,
                              !.log.born = Append(@, child.id)], child)
    ELSE w1)
   EXCEPT !.log.prey_steps = Append(@,
     [id |-> w.prey[i].id, from |-> w.prey[i].pos, pre |-> w.prey[i].energy,
      upd |-> w1.prey[i].energy, pos |-> w1.prey[i].pos,
      child |-> IF PreyReproduces(w1.prey[i]) THEN child.id ELSE 0])]
PreyStep(w, i, w1, rnd) ==
  PreyTurn(w, i, w1,
           NewPrey(w1.nextId, w1.prey[i].pos, Mutate(w1.prey[i].dna, rnd.mut),
                   rnd.vel0, rnd.theta0), rnd)
\* `for p in self.prey:` (the list iterator compares its index with the
\* current length of the list on every round)
RECURSIVE PreyPass(_, _, _)
PreyPass(w, i, rnd) ==
  IF i > Len(w.prey) THEN w
  ELSE PreyPass(PreyStep(w, i, PreyUpdate(w, i, rnd.wprey), rnd), i + 1, rnd)
\* The body of `for p in self.preds:` after p.update
PredTurn(w1, i, child) ==
  IF PredReproduces(w1.preds[i])
  THEN PredBirth([w1 EXCEPT !.preds[i].energy = PayPred(@), !.nextId = @ + 1,
                            !.log.born = Append(@, child.id)], child)
  ELSE w1
PredStep(w1, i, rnd) ==
  PredTurn(w1, i,
           NewPredator(w1.nextId, w1.preds[i].pos, Mutate(w1.preds[i].dna, rnd.mut),
                       rnd.vel0, rnd.theta0))
\* `for p in self.preds:`
RECURSIVE PredPass(_, _, _)
PredPass(w, i, rnd) ==
  IF i > Len(w.preds) THEN w
  ELSE PredPass(PredStep(PredatorUpdate(w, i, rnd.wpred), i, rnd), i + 1, rnd)
\* `self.prey.extend(new_prey)` and `self.preds.extend(new_preds)`
ExtendPrey(w) == [w EXCEPT !.prey = @ \o w.new_prey]
ExtendPreds(w) == [w EXCEPT !.preds = @ \o w.new_preds]

Max(a, b) == IF a > b THEN a ELSE b
\* deque(maxlen=...).append
DequeAppend(d, v) == IF Len(d) >= HISTORY_MAXLEN THEN Append(Tail(d), v) ELSE Append(d, v)
\* `pygame.time.get_ticks() % 10 == 0`
SampleNow == (frame * FRAME_MS) % 10 = 0

\* The world after the grids were cleared and the lists pruned: where the
\* fail-state check returns
Pruned_GridsKept(food1, prey1, preds1, id0) ==
  [food |-> food1, prey |-> prey1, preds |-> preds1,
   grid_food |-> grid_food, grid_prey |-> grid_prey, grid_preds |-> grid_preds,
   nextId |-> id0, new_prey |-> <<>>, new_preds |-> <<>>,
   log |-> [EmptyLog EXCEPT !.pruned_food = Len(food1)], extinct |-> TRUE]
Pruned(food1, prey1, preds1, id0) ==
  [food |-> food1, prey |-> prey1, preds |-> preds1,
   grid_food |-> EmptyGrid, grid_prey |-> EmptyGrid, grid_preds |-> EmptyGrid,
   nextId |-> id0, new_prey |-> <<>>, new_preds |-> <<>>,
   log |-> [EmptyLog EXCEPT !.pruned_food = Len(food1)], extinct |-> TRUE]
\* `for f in self.food: self.grid_food.add(f)` and its two likes
Register(w) ==
  [w EXCEPT !.grid_food = GridAddAll(EmptyGrid, w.food, 1),
            !.grid_prey = GridAddAll(EmptyGrid, w.prey, 1),
            !.grid_preds = GridAddAll(EmptyGrid, w.preds, 1),
            !.extinct = FALSE]
\* Regrowth, the prey pass and the predator pass
Passes(w, rnd) ==
  ExtendPreds(PredPass(ExtendPrey(PreyPass(Regrow(w, rnd), 1, rnd)), 1, rnd))
\* The fail-state check and what follows it
Checked(food1, prey1, preds1, id0, rnd) ==
  IF Extinct(prey1, preds1) THEN Pruned(food1, prey1, preds1, id0)
  ELSE Passes(Register(Pruned(food1, prey1, preds1, id0)), rnd)
\* Steps 2 to 7 of run_sim_logic on the lists as the input handling left them:
\* prune, the fail-state check (extinct: the early return), registration,
\* regrowth and the two passes
SimWorld(food0, prey0, preds0, id0, rnd) ==
  Checked(PruneFood(food0), PruneAgents(prey0), PruneAgents(preds0), id0, rnd)

\* The rest of run_sim_logic, given the world w its steps 2 to 7 produce: the
\* flags the event sets, the new lists and grids, and the stats update.
\* camera.update() only moves the zoom and the offset of the view, which the
\* model does not hold.
Finish(w, ev) ==
  /\ running' = (ev # "quit")
  /\ overview_mode' = IF ev = "rclick" THEN ~overview_mode ELSE overview_mode
  /\ clicks' = IF ev \in {"lclick", "rclick"} THEN clicks + 1 ELSE clicks
  /\ frame' = frame + 1
  /\ food' = w.food /\ prey' = w.prey /\ preds' = w.preds
  /\ grid_food' = w.grid_food /\ grid_prey' = w.grid_prey /\ grid_preds' = w.grid_preds
  /\ nextId' = w.nextId
  /\ trace' = [kind |-> "sim", event |-> ev, extinct |-> w.extinct, log |-> w.log]
  /\ IF w.extinct
     THEN /\ state' = "GAMEOVER"
          /\ UNCHANGED <<stats_history_prey, stats_history_pred, max_prey, max_pred>>
     ELSE /\ state' = IF ev = "esc" THEN "GAMEOVER" ELSE state
          /\ max_prey' = Max(max_prey, Len(w.prey))
          /\ max_pred' = Max(max_pred, Len(w.preds))
          /\ stats_history_prey' =
               IF SampleNow THEN DequeAppend(stats_history_prey, Len(w.prey))
               ELSE stats_history_prey
          /\ stats_history_pred' =
               IF SampleNow THEN DequeAppend(stats_history_pred, Len(w.preds))
               ELSE stats_history_pred

InSim == running /\ state = "SIM"
DefaultDraw ==
  [grow |-> FALSE, gpos |-> Vec(10000, 10000), wprey |-> 0, wpred |-> 0,
   mut |-> [speed |-> 110, force |-> 90, sense |-> 110], vel0 |-> Vec(10, 0), theta0 |-> 0]
\* The draws a step can come to make: random.random() is called only below
\* the food cap, and a genome is mutated and a newcomer's velocity drawn only
\* at a birth or a click (no agent short of the reproduction threshold by more
\* than one meal can give birth)
MayBirth ==
  \/ \E i \in 1..Len(prey) : prey[i].energy + FOOD_REWARD > REPRO_COST_PREY + REPRO_MARGIN
  \/ \E i \in 1..Len(preds) : preds[i].energy + PREY_REWARD > REPRO_COST_PRED + REPRO_MARGIN
DrawsNow(click) ==
  IF ~Rich THEN {DefaultDraw}
  ELSE {rnd \in Draws :
          /\ (~BelowCap(Len(PruneFood(food))) => ~rnd.grow)
          /\ (~(MayBirth \/ click) => rnd.vel0 = DefaultDraw.vel0)
          /\ (~MayBirth => rnd.mut = DefaultDraw.mut)}
KeyEventsNow == IF Rich THEN {"none", "quit", "esc"} ELSE {"none"}
\* A frame of the simulation whose event queue is empty or holds QUIT or
\* K_ESCAPE: these events leave the lists alone, so the frames share the world
SimStep ==
  InSim /\ \E rnd \in DrawsNow(FALSE) :
             \E w \in {SimWorld(food, prey, preds, nextId, rnd)} :
               \E ev \in KeyEventsNow : Finish(w, ev)
\* ... the right mouse button: camera.toggle_overview()
SimRightClick ==
  InSim /\ Rich /\ clicks < MaxClicks /\ \E rnd \in DrawsNow(FALSE) :
             \E w \in {SimWorld(food, prey, preds, nextId, rnd)} : Finish(w, "rclick")
\* ... the left mouse button: a predator is appended where the click lands
SimLeftClick ==
  InSim /\ Rich /\ clicks < MaxClicks /\ \E cpos \in ClickPos, rnd \in DrawsNow(TRUE) :
             \E w \in {SimWorld(food, prey,
                                Append(preds, NewPredator(nextId, cpos, PRED_DNA,
                                                          rnd.vel0, rnd.theta0)),
                                nextId + 1, rnd)} : Finish(w, "lclick")
Next ==
  \/ IntroSpace
  \/ IntroQuit
  \/ SimStep
  \/ SimRightClick
  \/ SimLeftClick
  \/ GameoverSpace
  \/ GameoverQuit
  \/ GameoverEscape

Spec == Init /\ [][Next]_vars
\* SimulationApp.run: for as long as running holds and the state is SIM, every
\* round of the loop calls run_sim_logic.  A step of Next taken in such a state
\* is one of SimStep, SimRightClick and SimLeftClick, each of which advances
\* frame, and SimStep is enabled in every such state.
RunLoop == InSim /\ frame' = frame + 1
LiveSpec == Spec /\ WF_frame(RunLoop)

\* ------------------------------------------------------------ properties
\* The last frame was a simulation step that ran beyond the fail-state check
Ticked == trace.kind = "sim" /\ ~trace.extinct
Updated == SeqSet(trace.log.updated)
Born == SeqSet(trace.log.born)
PreySteps == trace.log.prey_steps
Hunts == trace.log.hunts
Fed == trace.log.fed
\* The agents of a list that the prune of the next step would keep
Live(as) == {i \in 1..Len(as) : as[i].active /\ as[i].energy > 0}
ZeroLive == Live(prey) = {} /\ Live(preds) = {}
\* The step being taken is a simulation step with the given event
Stepping(ev) == InSim /\ trace'.kind = "sim" /\ trace'.event = ev
UpdatedAgents ==
  {prey[i] : i \in {j \in 1..Len(prey) : prey[j].id \in Updated}}
    \cup {preds[i] : i \in {j \in 1..Len(preds) : preds[j].id \in Updated}}

\* C1 as stated: a step without input taken with no live prey and no live
\* predator sets the state to GAMEOVER and changes none of the food list, the
\* prey and predator lists, the grids, the peak counters and the histories.
C1_Original ==
  [][(ZeroLive /\ Stepping("none")) => (state' = "GAMEOVER" /\ UNCHANGED simvars)]_vars
\* C1 (amended): a step without input taken with no live prey and no live
\* predator sets the state to GAMEOVER; before it returns it has cleared the
\* three grids and pruned the lists (inactive food removed, the prey and
\* predator lists left empty); the peak counters and the histories are
\* unchanged and no object is created.
C1_Extinction ==
  [][(ZeroLive /\ Stepping("none")) =>
       /\ state' = "GAMEOVER"
       /\ food' = SelectSeq(food, LAMBDA f : f.active)
       /\ prey' = <<>> /\ preds' = <<>>
       /\ grid_food' = EmptyGrid /\ grid_prey' = EmptyGrid /\ grid_preds' = EmptyGrid
       /\ UNCHANGED <<max_prey, max_pred, stats_history_prey, stats_history_pred, nextId>>]_vars
\* An extinction step without input has just run
C1_Witness ==
  state = "GAMEOVER" /\ trace.kind = "sim" /\ trace.event = "none" /\ trace.extinct

C3_Original ==
  \A k \in DOMAIN PreySteps :
    /\ (PreySteps[k].child # 0) <=> (PreySteps[k].pre > REPRO_COST_PREY + REPRO_MARGIN)
    /\ (PreySteps[k].child # 0) =>
         ObjById(prey, PreySteps[k].id).energy = PreySteps[k].pre - REPRO_COST_PREY
\* C3 (amended): a prey spawns an offspring in a step iff its energy after its
\* update of that step (metabolism charged, a meal's reward added) exceeds
\* REPRO_COST_PREY + 50; a parent ends the step with that energy minus exactly
\* REPRO_COST_PREY and any other prey with that energy; exactly one offspring
\* is created per parent, at the parent's position.
C3_Reproduction ==
  /\ \A k \in DOMAIN PreySteps :
       /\ (PreySteps[k].child # 0) <=> (PreySteps[k].upd > REPRO_COST_PREY + REPRO_MARGIN)
       /\ ObjById(prey, PreySteps[k].id).energy =
            IF PreySteps[k].child # 0 THEN PreySteps[k].upd - REPRO_COST_PREY
            ELSE PreySteps[k].upd
       /\ (PreySteps[k].child # 0) =>
            /\ Cardinality({j \in 1..Len(prey) : prey[j].id = PreySteps[k].child}) = 1
            /\ ObjById(prey, PreySteps[k].child).pos = ObjById(prey, PreySteps[k].id).pos
            /\ \A j \in DOMAIN PreySteps : j # k => PreySteps[j].child # PreySteps[k].child
  /\ Ticked =>
       Len(prey) = Len(PreySteps) + Cardinality({k \in DOMAIN PreySteps : PreySteps[k].child # 0})
\* A prey that started the step at or below the threshold has reproduced
C3_Witness ==
  \E k \in DOMAIN PreySteps :
    PreySteps[k].child # 0 /\ PreySteps[k].pre <= REPRO_COST_PREY + REPRO_MARGIN

\* C4 as stated: every agent in the prey or predator list has its energy
\* within [0, max_energy].
C4_Original ==
  /\ \A i \in 1..Len(prey) : 0 <= prey[i].energy /\ prey[i].energy <= MAX_ENERGY
  /\ \A i \in 1..Len(preds) : 0 <= preds[i].energy /\ preds[i].energy <= MAX_ENERGY
\* C4 (amended): every agent in the prey or predator list has energy at most
\* max_energy, and every agent enters its update with energy above 0 (an agent
\* whose energy fell to 0 or below stays in its list until the next prune).
C4_EnergyBound ==
  /\ \A i \in 1..Len(prey) : prey[i].energy <= MAX_ENERGY
  /\ \A i \in 1..Len(preds) : preds[i].energy <= MAX_ENERGY
  /\ \A k \in DOMAIN PreySteps : PreySteps[k].pre > 0
  /\ \A k \in DOMAIN Hunts : Hunts[k].energy > 0
\* An agent updated in the last step is in its list with energy below 0
C4_Witness == \E a \in UpdatedAgents : a.energy < 0

\* The step being taken finds no live agent after its input handling
Collapses == ZeroLive /\ trace'.event # "lclick"
\* C5 as stated: a simulation step moves to GAMEOVER only if no live prey and
\* no live predator is left, and otherwise stepping continues.
C5_Original ==
  [][(InSim /\ trace'.kind = "sim") =>
       /\ (state' = "GAMEOVER") <=> Collapses
       /\ ~Collapses => (state' = "SIM" /\ running')]_vars
\* C5 (amended): a simulation step moves to GAMEOVER only if no live prey and
\* no live predator is left or the escape key was pressed; in every step where
\* a live agent remains and neither the escape key nor QUIT arrives, stepping
\* continues.
C5_Terminal ==
  [][(InSim /\ trace'.kind = "sim") =>
       /\ (state' = "GAMEOVER") <=> (Collapses \/ trace'.event = "esc")
       /\ (~Collapses /\ trace'.event \notin {"esc", "quit"}) => (state' = "SIM" /\ running')
       /\ running' <=> trace'.event # "quit"]_vars
\* A population that had lived has collapsed
C5_Witness ==
  state = "GAMEOVER" /\ trace.kind = "sim" /\ trace.extinct /\ max_prey > 0 /\ running

\* C6: a predator with an active, registered prey strictly within its sense
\* targets a nearest such prey, and a target nearer than 12 is deactivated and
\* gives the predator 120.
C6_Sensing ==
  \A k \in DOMAIN Hunts :
    Hunts[k].inrange # {} =>
      /\ Hunts[k].target \in Hunts[k].nearest
      /\ Hunts[k].d2 < CATCH_RADIUS * CATCH_RADIUS =>
           /\ ~ObjById(prey, Hunts[k].target).active
           /\ Hunts[k].after = Hunts[k].before + PREY_REWARD

\* C7: within one step no item is fed on twice, and every item fed on is
\* inactive afterwards.
C7_SingleConsumption ==
  /\ \A a, b \in DOMAIN Fed : a # b => Fed[a].item # Fed[b].item
  /\ \A a \in DOMAIN Fed :
       \/ Fed[a].item \in Ids(food) /\ ~ObjById(food, Fed[a].item).active
       \/ Fed[a].item \in Ids(prey) /\ ~ObjById(prey, Fed[a].item).active
\* A prey processed after the eater of a food item started its update within
\* the eating radius of that item
C7_Witness ==
  \E a \in DOMAIN Fed : \E j, k \in DOMAIN PreySteps :
    /\ Fed[a].item \in Ids(food)
    /\ PreySteps[j].id = Fed[a].eater
    /\ j < k
    /\ Dist2(PreySteps[k].from, ObjById(food, Fed[a].item).pos) < EAT_RADIUS * EAT_RADIUS

\* The agent a newborn's reference denotes
Newborn(b) == IF b \in Ids(prey) THEN ObjById(prey, b) ELSE ObjById(preds, b)
\* C8: an agent born in a step is in its list after every agent the step
\* updated, was not updated and did not reproduce in that step, is in no grid
\* and was returned by no neighbor query of that step.
C8_DeferredBirths ==
  \A b \in Born :
    /\ b \in Ids(prey) \cup Ids(preds)
    /\ b \notin Updated
    /\ \A k \in DOMAIN PreySteps : PreySteps[k].id # b
    /\ Newborn(b).energy = (IF b \in Ids(prey) THEN PREY_ENERGY ELSE PRED_ENERGY)
    /\ b \notin trace.log.seen
    /\ b \notin GridIds(grid_prey) \cup GridIds(grid_preds)
    /\ \A i, j \in 1..Len(prey) : (prey[i].id = b /\ prey[j].id \in Updated) => j < i
    /\ \A i, j \in 1..Len(preds) : (preds[i].id = b /\ preds[j].id \in Updated) => j < i
\* A prey was born and a predator updated after the birth started its update
\* with the newborn strictly within its sense
C8_Witness ==
  \E b \in Born : \E k \in DOMAIN Hunts :
    /\ b \in Ids(prey)
    /\ Dist2(Hunts[k].from, Newborn(b).pos) < Hunts[k].sense * Hunts[k].sense

\* C9: the food list never holds more than the cap; a step adds at most one
\* food, and only when the food count after pruning is below the cap.
C9_FoodCap ==
  /\ Len(food) <= FOOD_CAP
  /\ trace.log.grew \in {0, 1}
  /\ trace.log.grew = 1 => trace.log.pruned_food < FOOD_CAP
  /\ Ticked => Len(food) = trace.log.pruned_food + trace.log.grew
\* A step has run with the food at the cap
C9_Witness == Ticked /\ trace.log.pruned_food = FOOD_CAP /\ Len(food) = FOOD_CAP

\* C10 as stated (its first consequence): once the prey list is empty it stays
\* empty across every step that is not a mouse click.
C10_Original ==
  [][(state # "INTRO" /\ prey = <<>> /\ trace'.event # "lclick") => prey' = <<>>]_vars
\* C10 (amended): once the prey list is empty it stays empty through every
\* simulation step; in such a step every predator that stays loses at least
\* PRED_METABOLISM per frame charged, none gains and none is created but by a
\* mouse click; and unless the program is quit the state GAMEOVER is reached.
C10_Collapse ==
  /\ [][(InSim /\ prey = <<>>) =>
          /\ prey' = <<>>
          /\ \A j \in 1..Len(preds') :
               \/ \E i \in 1..Len(preds) :
                    /\ preds[i].id = preds'[j].id
                    /\ preds'[j].energy <= preds[i].energy - MetabolismBoost * PRED_METABOLISM
               \/ trace'.event = "lclick" /\ preds'[j].id = nextId]_vars
  /\ (InSim /\ prey = <<>>) ~> (state = "GAMEOVER" \/ ~running)
\* Predators have just been updated in a world without prey
C10_Witness ==
  InSim /\ Ticked /\ prey = <<>> /\ preds # <<>> /\ Hunts # <<>> /\ PreySteps = <<>>
====
